---- MODULE Spec2Model ----
(***************************************************************************)
(* A model of the SOP/manual RAG agent: the vector index manager           *)
(* (src/src/utils/vector_store.py), the answer synthesizer                 *)
(* (src/src/utils/rag_agent.py), the ingestion pipeline                    *)
(* (src/src/utils/document_processor.py) and the front-end handlers that   *)
(* drive them (src/streamlit_app.py).                                      *)
(*                                                                         *)
(* Conventions.                                                            *)
(*  - A text (a chunk's page_content, a query, a path) is a sequence of     *)
(*    one-character strings.                                               *)
(*  - A distance and a score threshold are in tenths: 0.5 is 5.            *)
(*  - Python's None is the string None, which no str of the model equals.  *)
(*  - A call's outcome is a record with the field raised: TRUE when an     *)
(*    exception leaves the call, and ret: the value returned otherwise.    *)
(***************************************************************************)
EXTENDS Integers, Sequences, FiniteSets, TLC

VARIABLES vectorstore, mem, disk, llm, tmpfiles, last

vars == <<vectorstore, mem, disk, llm, tmpfiles, last>>

(***************************************************************************)
(* Bounds of the model.                                                    *)
(***************************************************************************)
\* The most records the index holds.
MaxIndex == 2
\* The largest result-count limit k a search is given.
MaxK == 2

None == "<None>"

Abs(x) == IF x < 0 THEN -x ELSE x

(***************************************************************************)
(* Texts and the embedding provider.                                       *)
(***************************************************************************)
\* The embedding of a text: a point on a line, a function of the text alone
\* (here, of its first character).
Embed(text) ==
    IF text = <<>> THEN 0
    ELSE IF text[1] = "a" THEN 4
    ELSE IF text[1] = "b" THEN 8
    ELSE 0

\* The distance between two embeddings (lower is more similar).
Distance(a, b) == Abs(a - b)

(***************************************************************************)
(* Documents (chunk records) as VectorStoreManager receives them.          *)
(***************************************************************************)
Document(content, source, path, ptype, idx, total) ==
    [page_content |-> content,
     metadata |-> [source |-> source, file_path |-> path, product_type |-> ptype,
                   chunk_index |-> idx, total_chunks |-> total]]

\* The documents the index operations are exercised with.
DocPool ==
    { Document(<<"a">>, "alerts.pdf", "/docs/alerts.pdf", "everbridge", 0, 2),
      Document(<<"c">>, "alerts.pdf", "/docs/alerts.pdf", "everbridge", 1, 2),
      Document(<<"a">>, "notes.pdf", "/docs/notes.pdf", "general", 0, 1) }

\* The non-empty sequences of documents of length at most n.
Batches(n) == UNION { [1..len -> DocPool] : len \in 1..n }

\* The index as it is stored: each document with its embedding, in insertion order.
Stored(docs) == [i \in 1..Len(docs) |-> [doc |-> docs[i], emb |-> Embed(docs[i].page_content)]]

(***************************************************************************)
(* The vector index library (Chroma), as VectorStoreManager uses it.       *)
(***************************************************************************)
\* Whether a stored record satisfies a metadata filter: a dict, here a set of
\* <<key, value>> pairs, every one of which the record's metadata must equal.
MatchesFilter(rec, filter_dict) ==
    \A kv \in filter_dict : rec.doc.metadata[kv[1]] = kv[2]

\* The indices of S ordered by distance to the query embedding, ties broken by
\* insertion order.
RECURSIVE NearestFirst(_, _, _)
NearestFirst(m, q, S) ==
    IF S = {} THEN <<>>
    ELSE LET best == CHOOSE i \in S : \A j \in S :
                        \/ Distance(m[i].emb, q) < Distance(m[j].emb, q)
                        \/ Distance(m[i].emb, q) = Distance(m[j].emb, q) /\ i <= j
         IN  <<best>> \o NearestFirst(m, q, S \ {best})

\* similarity_search_with_score: the at most k records nearest to the query among
\* those the filter admits, each with its distance, nearest first.
SimilaritySearchWithScore(m, query, k, filter_dict) ==
    LET admitted == { i \in 1..Len(m) : MatchesFilter(m[i], filter_dict) }
        order    == NearestFirst(m, Embed(query), admitted)
        n        == IF Len(order) < k THEN Len(order) ELSE k
    IN  [i \in 1..n |-> [doc |-> m[order[i]].doc,
                         score |-> Distance(m[order[i]].emb, Embed(query))]]

(***************************************************************************)
(* VectorStoreManager.  vectorstore is TRUE when self.vectorstore holds an *)
(* index object and FALSE when it is None; mem is that object's collection *)
(* and disk the records saved under persist_directory.                     *)
(***************************************************************************)
\* _initialize_vectorstore: a new index object over the persist directory, which
\* loads what the directory holds; None when the constructor raises.
\* (os.makedirs with exist_ok is taken to succeed.)
InitializeVectorstore(d, env) ==
    IF env = "chroma_raises"
    THEN [vectorstore |-> FALSE, mem |-> <<>>]
    ELSE [vectorstore |-> TRUE, mem |-> d]

\* Python's truth value of an Optional[str].
Truthy(s) == s # None /\ s # ""

\* add_documents with the insert's exception swallowed: a partial insert is
\* persisted and reported as success.
AddDocumentsSwallowInsert(vs, m, d, docs, env, done) ==
    IF ~vs
    THEN [ret |-> FALSE, raised |-> FALSE, mem |-> m, disk |-> d]
    ELSE IF env = "insert_raises"
    THEN [ret |-> TRUE, raised |-> FALSE,
          mem |-> m \o Stored(SubSeq(docs, 1, done)),
          disk |-> m \o Stored(SubSeq(docs, 1, done))]
    ELSE IF env = "persist_raises"
    THEN [ret |-> FALSE, raised |-> FALSE, mem |-> m \o Stored(docs), disk |-> d]
    ELSE [ret |-> TRUE, raised |-> FALSE,
          mem |-> m \o Stored(docs), disk |-> m \o Stored(docs)]

\* add_documents.  env: what the library does; done: the records an insert that
\* raises had already put into the collection.
AddDocumentsCall(vs, m, d, docs, env, done) ==
    IF ~vs
    THEN [ret |-> FALSE, raised |-> FALSE, mem |-> m, disk |-> d]
    ELSE IF env = "insert_raises"
    THEN [ret |-> FALSE, raised |-> FALSE,
          mem |-> m \o Stored(SubSeq(docs, 1, done)), disk |-> d]
    ELSE IF env = "persist_raises"
    THEN [ret |-> FALSE, raised |-> FALSE, mem |-> m \o Stored(docs), disk |-> d]
    ELSE [ret |-> TRUE, raised |-> FALSE,
          mem |-> m \o Stored(docs), disk |-> m \o Stored(docs)]

\* The filter dict with the sentinel test inverted: only "all" is passed on.
FilterDictInverted(product_filter) ==
    IF Truthy(product_filter) /\ product_filter = "all"
    THEN {<<"product_type", product_filter>>}
    ELSE {}

\* The filter dict search_documents builds from product_filter.
FilterDict(product_filter) ==
    IF Truthy(product_filter) /\ product_filter # "all"
    THEN {<<"product_type", product_filter>>}
    ELSE {}

\* The loop with a strict comparison: a score equal to the threshold is dropped.
RECURSIVE FilteredResultsStrict(_, _)
FilteredResultsStrict(results, score_threshold) ==
    IF results = <<>> THEN <<>>
    ELSE (IF Head(results).score < score_threshold
          THEN <<Head(results).doc>> ELSE <<>>)
         \o FilteredResultsStrict(Tail(results), score_threshold)

\* The loop over the scored results: keeps, in order, the documents whose score is
\* at most the threshold.
RECURSIVE FilteredResults(_, _)
FilteredResults(results, score_threshold) ==
    IF results = <<>> THEN <<>>
    ELSE (IF Head(results).score <= score_threshold
          THEN <<Head(results).doc>> ELSE <<>>)
         \o FilteredResults(Tail(results), score_threshold)

\* The body of search_documents' try block: raised when the library call raises.
\* raw is what the library returned.
SearchTry(m, query, k, product_filter, score_threshold, env) ==
    IF env = "search_raises"
    THEN [raised |-> TRUE, ret |-> <<>>, raw |-> <<>>]
    ELSE LET results == SimilaritySearchWithScore(m, query, k, FilterDict(product_filter))
         IN  [raised |-> FALSE, ret |-> FilteredResults(results, score_threshold),
              raw |-> results]

\* search_documents without its except clause: the library's exception leaves it.
SearchDocumentsNoExcept(vs, m, query, k, product_filter, score_threshold, env) ==
    IF ~vs
    THEN [raised |-> FALSE, ret |-> <<>>, raw |-> <<>>, called |-> FALSE]
    ELSE LET t == SearchTry(m, query, k, product_filter, score_threshold, env)
         IN  [raised |-> t.raised, ret |-> t.ret, raw |-> t.raw, called |-> TRUE]

\* search_documents: the guard on an uninitialized index, then the try block with
\* every exception turned into an empty result.
SearchDocuments(vs, m, query, k, product_filter, score_threshold, env) ==
    IF ~vs
    THEN [raised |-> FALSE, ret |-> <<>>, raw |-> <<>>, called |-> FALSE]
    ELSE LET t == SearchTry(m, query, k, product_filter, score_threshold, env)
         IN  IF t.raised
             THEN [raised |-> FALSE, ret |-> <<>>, raw |-> <<>>, called |-> TRUE]
             ELSE [raised |-> FALSE, ret |-> t.ret, raw |-> t.raw, called |-> TRUE]

\* get_document_count.
GetDocumentCount(vs, m) == IF ~vs THEN 0 ELSE Len(m)

\* get_products.
GetProducts(vs, m) ==
    IF ~vs THEN {} ELSE { m[i].doc.metadata.product_type : i \in 1..Len(m) }

\* clear_vectorstore: removes the persist directory and initializes the index
\* again; FALSE when removing the directory raises.
ClearVectorstoreCall(vs, m, d, env) ==
    IF env = "rmtree_raises"
    THEN [ret |-> FALSE, raised |-> FALSE, vectorstore |-> vs, mem |-> m, disk |-> d]
    ELSE LET init == InitializeVectorstore(<<>>, env)
         IN  [ret |-> TRUE, raised |-> FALSE, vectorstore |-> init.vectorstore,
              mem |-> init.mem, disk |-> <<>>]

(***************************************************************************)
(* The index operations as steps.  last records the latest call: its       *)
(* arguments, what the library did (env), the index before it (pre) and    *)
(* its outcome (out).                                                      *)
(***************************************************************************)
Pre == [vectorstore |-> vectorstore, mem |-> mem, disk |-> disk]

\* The queries, result limits, filters and thresholds searches are made with.
SearchQueries == {<<"b">>, <<"c">>}
ProductFilters == {None, "all", "", "everbridge", "milestone"}
ScoreThresholds == {0, 5}

\* VectorStoreManager.__init__ of a fresh installation: nothing persisted yet.
Init ==
    /\ disk = <<>>
    /\ \E env \in {"ok", "chroma_raises"} :
         LET init == InitializeVectorstore(disk, env)
         IN  /\ vectorstore = init.vectorstore
             /\ mem = init.mem
    /\ llm = TRUE
    /\ tmpfiles = {}
    /\ last = [op |-> "init"]

\* The process starts again: VectorStoreManager.__init__ over the persisted state.
Restart ==
    \E env \in {"ok", "chroma_raises"} :
        LET init == InitializeVectorstore(disk, env)
        IN  /\ vectorstore' = init.vectorstore
            /\ mem' = init.mem
            /\ last' = [op |-> "restart", env |-> env]
            /\ UNCHANGED <<disk, llm, tmpfiles>>

Add ==
    /\ Len(mem) < MaxIndex
    /\ \E docs \in Batches(MaxIndex - Len(mem)) :
       \E env \in {"ok", "insert_raises", "persist_raises"} :
       \E done \in 0..(Len(docs) - 1) :
         /\ env # "insert_raises" => done = 0
         /\ LET out == AddDocumentsCall(vectorstore, mem, disk, docs, env, done)
            IN  /\ mem' = out.mem
                /\ disk' = out.disk
                /\ last' = [op |-> "add_documents", documents |-> docs, env |-> env,
                            pre |-> Pre, out |-> [ret |-> out.ret, raised |-> out.raised]]
         /\ UNCHANGED <<vectorstore, llm, tmpfiles>>

Search ==
    \E query \in SearchQueries, k \in 1..MaxK, product_filter \in ProductFilters :
    \E score_threshold \in ScoreThresholds, env \in {"ok", "search_raises"} :
        \* What the library returns when it raises depends on no argument: one
        \* limit and one threshold stand for all.
        /\ env = "search_raises" => k = 1 /\ score_threshold = 5
        /\ last' = [op |-> "search_documents", query |-> query, k |-> k,
                    product_filter |-> product_filter,
                    score_threshold |-> score_threshold, env |-> env,
                    out |-> SearchDocuments(vectorstore, mem, query, k, product_filter,
                                            score_threshold, env)]
        /\ UNCHANGED <<vectorstore, mem, disk, llm, tmpfiles>>

Clear ==
    \E env \in {"ok", "rmtree_raises", "chroma_raises"} :
        LET out == ClearVectorstoreCall(vectorstore, mem, disk, env)
        IN  /\ vectorstore' = out.vectorstore
            /\ mem' = out.mem
            /\ disk' = out.disk
            /\ last' = [op |-> "clear_vectorstore", env |-> env,
                        out |-> [ret |-> out.ret, raised |-> out.raised]]
            /\ UNCHANGED <<llm, tmpfiles>>

Next == Restart \/ Add \/ Search \/ Clear

Spec == Init /\ [][Next]_vars

(***************************************************************************)
(* Properties of the vector index and the retriever.                       *)
(***************************************************************************)
IsSearch == last.op = "search_documents"
IsAdd == last.op = "add_documents"
IsClear == last.op = "clear_vectorstore"

\* The i-th smallest element of a set of numbers.
NthSmallest(S, i) == CHOOSE x \in S : Cardinality({y \in S : y < x}) = i - 1

\* The positions of the library's results whose score is at most the threshold.
Passing(raw, score_threshold) == { j \in 1..Len(raw) : raw[j].score <= score_threshold }

\* C1: what search_documents returns is exactly the library's results whose
\* distance is at most score_threshold, in the library's order (ascending
\* distance): none above the threshold, none at or below it left out.
C1_ThresholdFilter ==
    IsSearch =>
        LET raw  == last.out.raw
            ret  == last.out.ret
            pass == Passing(raw, last.score_threshold)
        IN  /\ \A i \in 1..Len(raw), j \in 1..Len(raw) :
                 i < j => raw[i].score <= raw[j].score
            /\ Len(ret) = Cardinality(pass)
            /\ \A i \in 1..Len(ret) : ret[i] = raw[NthSmallest(pass, i)].doc

\* A search whose nearest result is exactly at the threshold and is returned, and
\* whose next result is above it and is dropped.
C1_Witness ==
    /\ IsSearch
    /\ Len(last.out.raw) = 2
    /\ last.out.raw[1].score = last.score_threshold
    /\ last.out.raw[2].score > last.score_threshold
    /\ last.out.ret = <<last.out.raw[1].doc>>

\* Whether every returned chunk has the category the filter names.
AllOfCategory(ret, cat) ==
    \A i \in 1..Len(ret) : ret[i].metadata.product_type = cat

\* C2 as stated: with any filter other than None and "all", every returned chunk
\* has the filter's category.
C2_Original ==
    (IsSearch /\ last.product_filter \notin {None, "all"}) =>
        AllOfCategory(last.out.ret, last.product_filter)

\* C2, amended: with a non-empty filter other than "all" every returned chunk has
\* the filter's category, so a category the index does not hold gives an empty
\* result, without an error; with None, the empty string or "all" the library
\* is searched without a filter, so every category is eligible.
C2_CategoryFilter ==
    IsSearch =>
        /\ ~last.out.raised
        /\ last.product_filter \notin {None, "all", ""} =>
             /\ AllOfCategory(last.out.ret, last.product_filter)
             /\ last.product_filter \notin GetProducts(vectorstore, mem) =>
                  last.out.ret = <<>>
        /\ (last.product_filter \in {None, "all", ""} /\ vectorstore
              /\ last.env = "ok") =>
             last.out.raw = SimilaritySearchWithScore(mem, last.query, last.k, {})

\* A search filtered to "everbridge" that returns a chunk while the index holds a
\* chunk of another category within the threshold.
C2_Witness ==
    /\ IsSearch
    /\ last.product_filter = "everbridge"
    /\ last.out.ret # <<>>
    /\ \E i \in 1..Len(mem) :
         /\ mem[i].doc.metadata.product_type # "everbridge"
         /\ Distance(mem[i].emb, Embed(last.query)) <= last.score_threshold

\* C3: search_documents never raises, and returns the empty sequence when the
\* index is uninitialized, when it is empty, when the library's search raises and
\* when no result is within the threshold.
C3_EmptyNeverRaises ==
    IsSearch =>
        /\ ~last.out.raised
        /\ ( \/ ~vectorstore
             \/ mem = <<>>
             \/ last.env = "search_raises"
             \/ Passing(last.out.raw, last.score_threshold) = {} ) =>
           last.out.ret = <<>>

\* A search on an initialized, non-empty index in which the library raised.
C3_Witness ==
    /\ IsSearch
    /\ vectorstore
    /\ mem # <<>>
    /\ last.env = "search_raises"
    /\ last.out.ret = <<>>

\* C4: after an add that reports success the count is the count before plus the
\* number of records given; an add on an uninitialized index reports failure and
\* leaves the count as it was.
C4_AddThenCount ==
    IsAdd =>
        LET before == GetDocumentCount(last.pre.vectorstore, last.pre.mem)
            after  == GetDocumentCount(vectorstore, mem)
        IN  /\ last.out.ret => after = before + Len(last.documents)
            /\ ~last.pre.vectorstore => (~last.out.ret /\ after = before)

\* A successful add, to a non-empty index, of a record the index already holds.
C4_Witness ==
    /\ IsAdd
    /\ last.out.ret
    /\ \E i \in 1..Len(last.pre.mem) : last.pre.mem[i].doc = last.documents[1]
    /\ GetDocumentCount(vectorstore, mem) = Len(last.pre.mem) + Len(last.documents)

\* C5: an add that reports failure leaves none of its records visible (the
\* collection, and so count, the categories and every search, is as before), and
\* an add that reports success leaves all of them visible.
C5_AllOrNothing ==
    IsAdd =>
        /\ ~last.out.ret =>
             /\ mem = last.pre.mem
             /\ GetDocumentCount(vectorstore, mem)
                  = GetDocumentCount(last.pre.vectorstore, last.pre.mem)
             /\ GetProducts(vectorstore, mem)
                  = GetProducts(last.pre.vectorstore, last.pre.mem)
        /\ last.out.ret => mem = last.pre.mem \o Stored(last.documents)

\* C6: after a clear that reports success the index is as a freshly created empty
\* one: the count is 0, there are no categories, every search is empty, an add
\* succeeds when the library does, and a second clear reports success and changes
\* nothing.
C6_ClearIsFresh ==
    (IsClear /\ last.out.ret) =>
        /\ GetDocumentCount(vectorstore, mem) = 0
        /\ GetProducts(vectorstore, mem) = {}
        /\ \A query \in SearchQueries, k \in 1..MaxK, pf \in ProductFilters,
              thr \in ScoreThresholds :
             SearchDocuments(vectorstore, mem, query, k, pf, thr, "ok").ret = <<>>
        /\ \A docs \in Batches(1) :
             AddDocumentsCall(vectorstore, mem, disk, docs, "ok", 0).ret
        /\ LET again == ClearVectorstoreCall(vectorstore, mem, disk, "ok")
           IN  /\ again.ret
               /\ again.vectorstore = vectorstore
               /\ again.mem = mem
               /\ again.disk = disk

(***************************************************************************)
(* RAGAgent (src/src/utils/rag_agent.py).  llm is TRUE when self.llm holds *)
(* a chat model and FALSE when it is None.                                 *)
(***************************************************************************)
\* score_threshold's default in search_documents, in tenths.
DefaultScoreThreshold == 5
\* The least stripped length and the greatest length of a valid query.
MinQueryLength == 3
MaxQueryLength == 1000

\* The number of whitespace characters text has from position i on (step 1) or
\* back (step -1), up to the first other character.
RECURSIVE Blanks(_, _, _)
Blanks(text, i, step) ==
    IF i < 1 \/ i > Len(text) \/ text[i] \notin {" ", "\n"} THEN 0
    ELSE 1 + Blanks(text, i + step, step)

\* str.strip(): the text without its leading and trailing whitespace.
Strip(text) ==
    LET lead == Blanks(text, 1, 1)
    IN  IF lead = Len(text) THEN <<>>
        ELSE SubSeq(text, lead + 1, Len(text) - Blanks(text, Len(text), -1))

\* validate_query.
ValidateQuery(query) ==
    IF query = <<>> \/ Len(Strip(query)) < MinQueryLength
    THEN [valid |-> FALSE, message |-> "too_short"]
    ELSE IF Len(query) > MaxQueryLength
    THEN [valid |-> FALSE, message |-> "too_long"]
    ELSE [valid |-> TRUE, message |-> "valid"]

\* retrieve_relevant_documents: search_documents with the default threshold.
RetrieveRelevantDocuments(vs, m, query, product_filter, k, env) ==
    SearchDocuments(vs, m, query, k, product_filter, DefaultScoreThreshold, env)

\* The source descriptors generate_answer builds from the retrieved documents.
Sources(docs) ==
    [i \in 1..Len(docs) |-> [source |-> docs[i].metadata.source,
                             product_type |-> docs[i].metadata.product_type,
                             chunk_index |-> docs[i].metadata.chunk_index]]

\* A response of generate_answer.
Response(answer, sources, product_filter) ==
    [answer |-> answer, sources |-> sources, product_filter |-> product_filter]

\* generate_answer without the try/except around the model call.
GenerateAnswerNoExcept(l, vs, m, query, product_filter, k, senv, lenv) ==
    IF ~l
    THEN [raised |-> FALSE, calls |-> <<>>, retrieved |-> <<>>,
          ret |-> Response("llm_not_available", <<>>, product_filter)]
    ELSE LET r == RetrieveRelevantDocuments(vs, m, query, product_filter, k, senv)
         IN  IF r.raised
             THEN [raised |-> TRUE, calls |-> <<"retrieve">>, retrieved |-> <<>>,
                   ret |-> Response("", <<>>, product_filter)]
             ELSE IF r.ret = <<>>
             THEN [raised |-> FALSE, calls |-> <<"retrieve">>, retrieved |-> r.ret,
                   ret |-> Response("no_relevant_information", <<>>, product_filter)]
             ELSE IF lenv = "llm_raises"
             THEN [raised |-> TRUE, calls |-> <<"retrieve", "llm">>,
                   retrieved |-> r.ret, ret |-> Response("", <<>>, product_filter)]
             ELSE [raised |-> FALSE, calls |-> <<"retrieve", "llm">>,
                   retrieved |-> r.ret,
                   ret |-> Response("llm_response", Sources(r.ret), product_filter)]

\* generate_answer without the test for an empty retrieval: the model is asked
\* with the context "No relevant documents found.".
GenerateAnswerNoEmptyTest(l, vs, m, query, product_filter, k, senv, lenv) ==
    IF ~l
    THEN [raised |-> FALSE, calls |-> <<>>, retrieved |-> <<>>,
          ret |-> Response("llm_not_available", <<>>, product_filter)]
    ELSE LET r == RetrieveRelevantDocuments(vs, m, query, product_filter, k, senv)
         IN  IF r.raised
             THEN [raised |-> TRUE, calls |-> <<"retrieve">>, retrieved |-> <<>>,
                   ret |-> Response("", <<>>, product_filter)]
             ELSE IF lenv = "llm_raises"
             THEN [raised |-> FALSE, calls |-> <<"retrieve", "llm">>,
                   retrieved |-> r.ret,
                   ret |-> Response("error_generating_response", <<>>, product_filter)]
             ELSE [raised |-> FALSE, calls |-> <<"retrieve", "llm">>,
                   retrieved |-> r.ret,
                   ret |-> Response("llm_response", Sources(r.ret), product_filter)]

\* generate_answer.  senv: what the library's search does; lenv: what the language
\* model does when called.  calls lists the collaborators invoked, in order, and
\* retrieved is what the retrieval returned.
GenerateAnswer(l, vs, m, query, product_filter, k, senv, lenv) ==
    IF ~l
    THEN [raised |-> FALSE, calls |-> <<>>, retrieved |-> <<>>,
          ret |-> Response("llm_not_available", <<>>, product_filter)]
    ELSE LET r == RetrieveRelevantDocuments(vs, m, query, product_filter, k, senv)
         IN  IF r.raised
             THEN [raised |-> TRUE, calls |-> <<"retrieve">>, retrieved |-> <<>>,
                   ret |-> Response("", <<>>, product_filter)]
             ELSE IF r.ret = <<>>
             THEN [raised |-> FALSE, calls |-> <<"retrieve">>, retrieved |-> r.ret,
                   ret |-> Response("no_relevant_information", <<>>, product_filter)]
             ELSE IF lenv = "llm_raises"
             THEN [raised |-> FALSE, calls |-> <<"retrieve", "llm">>,
                   retrieved |-> r.ret,
                   ret |-> Response("error_generating_response", <<>>, product_filter)]
             ELSE [raised |-> FALSE, calls |-> <<"retrieve", "llm">>,
                   retrieved |-> r.ret,
                   ret |-> Response("llm_response", Sources(r.ret), product_filter)]

\* ask_question, the front-end's handler: validates, then calls generate_answer
\* with the filter "all" turned into None.
AskQuestionCall(l, vs, m, question, product_filter, k, senv, lenv) ==
    LET validation == ValidateQuery(question)
    IN  IF ~validation.valid
        THEN [raised |-> FALSE, calls |-> <<>>, validation |-> validation,
              ret |-> Response(validation.message, <<>>, product_filter)]
        ELSE LET out == GenerateAnswer(l, vs, m, question,
                                       IF product_filter # "all" THEN product_filter
                                       ELSE None, k, senv, lenv)
             IN  [raised |-> out.raised, calls |-> out.calls,
                  validation |-> validation, ret |-> out.ret]

(***************************************************************************)
(* The query path as steps, over an index built in an earlier run.         *)
(***************************************************************************)
\* A text of n characters c followed by pad whitespace characters.
Text(c, n, pad) == [i \in 1..(n + pad) |-> IF i <= n THEN c ELSE " "]

\* The queries asked: empty, of 2 and 3 characters, of 3 characters of which one is
\* a trailing blank, of 1000 and of 1001 characters; the character decides the
\* embedding.
AnswerQueries ==
    { <<>>, Text("c", 2, 0), Text("c", 3, 0), Text("b", 3, 0), Text("c", 2, 1),
      Text("c", MaxQueryLength, 0), Text("c", MaxQueryLength, 1) }

\* The filters generate_answer is called with, and those the front-end offers.
AnswerFilters == {None, "everbridge"}
AskFilters == {"all", "everbridge"}

\* What the collaborators do in one call: at most one of them raises.
AnswerEnvs == {<<"ok", "ok">>, <<"search_raises", "ok">>, <<"ok", "llm_raises">>}

\* VectorStoreManager.__init__ over what an earlier run persisted, and
\* RAGAgent.__init__, whose chat model may fail to construct.
AnswerInit ==
    /\ disk \in {<<>>} \cup { Stored(b) : b \in Batches(MaxIndex) }
    /\ \E env \in {"ok", "chroma_raises"} :
         LET init == InitializeVectorstore(disk, env)
         IN  /\ vectorstore = init.vectorstore
             /\ mem = init.mem
    /\ llm \in BOOLEAN
    /\ tmpfiles = {}
    /\ last = [op |-> "init"]

Answer ==
    \E query \in AnswerQueries, product_filter \in AnswerFilters :
    \E k \in 1..MaxK, env \in AnswerEnvs :
        \* A collaborator that raises does so whatever the limit: one limit stands
        \* for all.
        /\ env # <<"ok", "ok">> => k = 1
        /\ last' = [op |-> "generate_answer", query |-> query,
                    product_filter |-> product_filter, k |-> k, env |-> env,
                    out |-> GenerateAnswer(llm, vectorstore, mem, query,
                                           product_filter, k, env[1], env[2])]
        /\ UNCHANGED <<vectorstore, mem, disk, llm, tmpfiles>>

AskQuestion ==
    \E question \in AnswerQueries, product_filter \in AskFilters :
    \E k \in 1..MaxK, env \in AnswerEnvs :
        /\ env # <<"ok", "ok">> => k = 1
        \* main calls ask_question only when the question has a non-blank character.
        /\ Strip(question) # <<>>
        /\ last' = [op |-> "ask_question", query |-> question,
                    product_filter |-> product_filter, k |-> k, env |-> env,
                    out |-> AskQuestionCall(llm, vectorstore, mem, question,
                                            product_filter, k, env[1], env[2])]
        /\ UNCHANGED <<vectorstore, mem, disk, llm, tmpfiles>>

AnswerNext == Answer \/ AskQuestion

SpecAnswer == AnswerInit /\ [][AnswerNext]_vars

(***************************************************************************)
(* Properties of the answer synthesizer.                                   *)
(***************************************************************************)
IsAnswer == last.op = "generate_answer"

Called(name) == \E i \in 1..Len(last.out.calls) : last.out.calls[i] = name

\* C7: generate_answer, given a query of fewer than 3 or more than 1000
\* characters, returns a validation failure and invokes neither the retrieval nor
\* the language model; a query of 3 to 1000 characters is not refused.
C7_ValidatesFirst ==
    IsAnswer =>
        IF Len(last.query) < MinQueryLength \/ Len(last.query) > MaxQueryLength
        THEN /\ last.out.calls = <<>>
             /\ last.out.ret.answer \in {"too_short", "too_long"}
        ELSE last.out.ret.answer \notin {"too_short", "too_long"}

\* C8: no exception leaves generate_answer, and when the language model is
\* unavailable, or raises when called, the response describes the failure and
\* has no sources.
C8_ModelFailureIsAResponse ==
    IsAnswer =>
        /\ ~last.out.raised
        /\ ~llm =>
             /\ last.out.ret.answer = "llm_not_available"
             /\ last.out.ret.sources = <<>>
        /\ (Called("llm") /\ last.env[2] = "llm_raises") =>
             /\ last.out.ret.answer = "error_generating_response"
             /\ last.out.ret.sources = <<>>

\* A call in which chunks were retrieved and the language model raised.
C8_Witness ==
    /\ IsAnswer
    /\ last.out.calls = <<"retrieve", "llm">>
    /\ last.env[2] = "llm_raises"
    /\ last.out.ret.answer = "error_generating_response"

\* C9: when the retrieval returns no chunk the response is the fixed
\* no-relevant-information one, without sources, and the language model is not
\* called; the language model is called only after a retrieval that returned a
\* chunk.
C9_NoChunksNoModelCall ==
    IsAnswer =>
        /\ (Called("retrieve") /\ last.out.retrieved = <<>>) =>
             /\ last.out.ret.answer = "no_relevant_information"
             /\ last.out.ret.sources = <<>>
             /\ ~Called("llm")
        /\ Called("llm") =>
             /\ last.out.calls = <<"retrieve", "llm">>
             /\ last.out.retrieved # <<>>

\* A call on a non-empty index whose retrieval returned nothing: every stored
\* chunk is farther from the query than the threshold.
C9_Witness ==
    /\ IsAnswer
    /\ mem # <<>>
    /\ last.product_filter = None
    /\ last.env = <<"ok", "ok">>
    /\ last.out.calls = <<"retrieve">>
    /\ last.out.ret.answer = "no_relevant_information"

(***************************************************************************)
(* DocumentProcessor (src/src/utils/document_processor.py).                *)
(***************************************************************************)
\* chunk_size and chunk_overlap the processor is constructed with.
ChunkSize == 4
ChunkOverlap == 1
\* The most paths one call of process_multiple_documents is given.
MaxFiles == 2

UpperCase == <<"A", "B", "C", "D", "E", "F", "G", "H", "I", "J", "K", "L", "M", "N", "O", "P", "Q", "R", "S", "T", "U", "V", "W", "X", "Y", "Z">>
LowerCase == <<"a", "b", "c", "d", "e", "f", "g", "h", "i", "j", "k", "l", "m", "n", "o", "p", "q", "r", "s", "t", "u", "v", "w", "x", "y", "z">>

\* str.lower().
LowerChar(c) ==
    IF \E i \in 1..Len(UpperCase) : UpperCase[i] = c
    THEN LowerCase[CHOOSE i \in 1..Len(UpperCase) : UpperCase[i] = c]
    ELSE c
Lower(text) == [i \in 1..Len(text) |-> LowerChar(text[i])]

\* needle in hay.
Contains(hay, needle) ==
    \E i \in 0..(Len(hay) - Len(needle)) :
        \A j \in 1..Len(needle) : hay[i + j] = needle[j]

\* str.endswith.
EndsWith(text, suffix) ==
    /\ Len(text) >= Len(suffix)
    /\ SubSeq(text, Len(text) - Len(suffix) + 1, Len(text)) = suffix

\* os.path.basename: what follows the last "/".
Basename(path) ==
    LET slashes == { i \in 1..Len(path) : path[i] = "/" }
    IN  IF slashes = {} THEN path
        ELSE SubSeq(path, (CHOOSE i \in slashes : \A j \in slashes : j <= i) + 1,
                    Len(path))

\* The concatenation of a sequence of texts, each followed by a newline.
RECURSIVE JoinLines(_)
JoinLines(texts) ==
    IF texts = <<>> THEN <<>>
    ELSE Head(texts) \o <<"\n">> \o JoinLines(Tail(texts))

\* The texts of a sequence that are not empty.
RECURSIVE NonEmpty(_)
NonEmpty(texts) ==
    IF texts = <<>> THEN <<>>
    ELSE (IF Head(texts) # <<>> THEN <<Head(texts)>> ELSE <<>>) \o NonEmpty(Tail(texts))

(***************************************************************************)
(* The files.  A file is its path, whether it exists, what pdfplumber      *)
(* reads from it (plumber: the text of each page, <<>> for a page without  *)
(* text, and failsAt: the page at which it raises, 0 for never; opening    *)
(* that raises is failsAt = 1) and what PyMuPDF reads from it (fitz: the   *)
(* text of each page, and raises: whether it raises).                      *)
(***************************************************************************)
File(path, exists, ppages, failsAt, fpages, fraises) ==
    [path |-> path, exists |-> exists,
     plumber |-> [pages |-> ppages, failsAt |-> failsAt],
     fitz |-> [pages |-> fpages, raises |-> fraises]]

PathAlerts == <<"/", "d", "/", "a", "l", "e", "r", "t", "s", ".", "p", "d", "f">>
PathMilestone == <<"/", "d", "/", "M", "i", "l", "e", "s", "t", "o", "n", "e", ".", "P", "D", "F">>
PathNotes == <<"/", "d", "/", "n", "o", "t", "e", "s", ".", "t", "x", "t">>
PathGone == <<"/", "d", "/", "g", "o", "n", "e", ".", "p", "d", "f">>
PathScan == <<"/", "d", "/", "s", "c", "a", "n", ".", "p", "d", "f">>
PathCam == <<"/", "d", "/", "c", "a", "m", ".", "p", "d", "f">>
PathBad == <<"/", "d", "/", "b", "a", "d", ".", "p", "d", "f">>

Files ==
    { \* two pages of text: two chunks
      File(PathAlerts, TRUE, <<<<"a", "b", "c">>, <<"d", "e">>>>, 0, <<<<"a", "b", "c">>, <<"d", "e">>>>, FALSE),
      \* one page, named after a product
      File(PathMilestone, TRUE, <<<<"b">>>>, 0, <<<<"b">>>>, FALSE),
      \* not a PDF
      File(PathNotes, TRUE, <<>>, 1, <<>>, TRUE),
      \* no such file
      File(PathGone, FALSE, <<>>, 1, <<>>, TRUE),
      \* a scan: a page without text and a page of whitespace
      File(PathScan, TRUE, <<<<>>, <<" ">>>>, 0, <<<<>>, <<" ">>>>, FALSE),
      \* pdfplumber raises at the second page, PyMuPDF reads the file
      File(PathCam, TRUE, <<<<"a">>, <<"c", "d">>>>, 2, <<<<"c", "d">>>>, FALSE),
      \* both extractors raise
      File(PathBad, TRUE, <<>>, 1, <<>>, TRUE) }

Paths == { f.path : f \in Files }
FileAt(path) == CHOOSE f \in Files : f.path = path

\* extract_text_from_pdf: the pages pdfplumber read before it raised, then, if it
\* raised, the pages PyMuPDF reads, appended to the same text; stripped.
ExtractTextFromPdf(file) ==
    LET n      == Len(file.plumber.pages)
        failed == file.plumber.failsAt # 0
        read   == IF failed THEN SubSeq(file.plumber.pages, 1, file.plumber.failsAt - 1)
                  ELSE file.plumber.pages
        first  == JoinLines(NonEmpty(read))
    IN  IF ~failed THEN [raised |-> FALSE, ret |-> Strip(first)]
        ELSE IF file.fitz.raises THEN [raised |-> TRUE, ret |-> <<>>]
        ELSE [raised |-> FALSE, ret |-> Strip(first \o JoinLines(file.fitz.pages))]

KwEverbridge == <<"e", "v", "e", "r", "b", "r", "i", "d", "g", "e">>
KwInnerRangeText == <<"i", "n", "n", "e", "r", " ", "r", "a", "n", "g", "e">>
KwInnerRangeFile == <<"i", "n", "n", "e", "r", "_", "r", "a", "n", "g", "e">>
KwInnerRangeFileJoined == <<"i", "n", "n", "e", "r", "r", "a", "n", "g", "e">>
KwMilestone == <<"m", "i", "l", "e", "s", "t", "o", "n", "e">>

\* detect_product_type.
DetectProductType(text, filename) ==
    LET text_lower == Lower(text)
        filename_lower == Lower(filename)
    IN  IF Contains(text_lower, KwEverbridge) \/ Contains(filename_lower, KwEverbridge)
        THEN "everbridge"
        ELSE IF \/ Contains(text_lower, KwInnerRangeText)
                \/ Contains(filename_lower, KwInnerRangeFile)
                \/ Contains(filename_lower, KwInnerRangeFileJoined)
        THEN "inner_range"
        ELSE IF Contains(text_lower, KwMilestone) \/ Contains(filename_lower, KwMilestone)
        THEN "milestone"
        ELSE "general"

\* text_splitter.split_text: windows of chunk_size characters, each starting
\* chunk_size - chunk_overlap after the one before; a text of at most chunk_size
\* characters is one chunk.
SplitText(text) ==
    LET step == ChunkSize - ChunkOverlap
        n    == IF Len(text) <= ChunkSize THEN 1
                ELSE 1 + ((Len(text) - ChunkSize + step - 1) \div step)
    IN  [i \in 1..n |->
            SubSeq(text, (i - 1) * step + 1,
                   IF (i - 1) * step + ChunkSize < Len(text)
                   THEN (i - 1) * step + ChunkSize ELSE Len(text))]

\* process_document with chunk_index counted from one: its last record would
\* carry chunk_index = total_chunks.
ProcessFileOneBased(file, product_type) ==
    LET text   == ExtractTextFromPdf(file).ret
        chunks == SplitText(text)
        ptype  == IF product_type = None
                  THEN DetectProductType(text, Basename(file.path))
                  ELSE product_type
    IN  IF \/ ~file.exists
           \/ ~EndsWith(Lower(file.path), <<".", "p", "d", "f">>)
           \/ ExtractTextFromPdf(file).raised
           \/ Strip(text) = <<>>
        THEN [raised |-> TRUE, error |-> "Exception", ret |-> <<>>]
        ELSE [raised |-> FALSE, error |-> "",
              ret |-> [i \in 1..Len(chunks) |->
                         Document(chunks[i], Basename(file.path), file.path, ptype,
                                  i, Len(chunks))]]

\* process_document on the file found at file.path: file is what the file
\* system holds there (exists: FALSE when it holds nothing).
ProcessFile(file, product_type) ==
    LET file_path == file.path
        fail(error) == [raised |-> TRUE, error |-> error, ret |-> <<>>]
    IN  IF ~file.exists THEN fail("FileNotFoundError")
        ELSE IF ~EndsWith(Lower(file_path), <<".", "p", "d", "f">>)
        THEN fail("ValueError: only PDF")
        ELSE LET extracted == ExtractTextFromPdf(file)
             IN  IF extracted.raised THEN fail("Exception: could not extract")
                 ELSE IF Strip(extracted.ret) = <<>> THEN fail("ValueError: no text")
                 ELSE LET text     == extracted.ret
                          filename == Basename(file_path)
                          ptype    == IF product_type = None
                                      THEN DetectProductType(text, filename)
                                      ELSE product_type
                          chunks   == SplitText(text)
                      IN  [raised |-> FALSE, error |-> "",
                           ret |-> [i \in 1..Len(chunks) |->
                                      Document(chunks[i], filename, file_path, ptype,
                                               i - 1, Len(chunks))]]

\* process_document on a path of the documents directory.
ProcessDocument(file_path, product_type) ==
    ProcessFile(FileAt(file_path), product_type)

\* The product type process_multiple_documents passes for a path: the entry of
\* product_types, a dict (items: its <<path, type>> pairs) or None.
ProductTypeFor(product_types, file_path) ==
    IF /\ ~product_types.none
       /\ product_types.items # {}
       /\ \E kv \in product_types.items : kv[1] = file_path
    THEN (CHOOSE kv \in product_types.items : kv[1] = file_path)[2]
    ELSE None

\* The loop of process_multiple_documents ended by the first document that fails.
RECURSIVE ProcessLoopAborting(_, _, _, _)
ProcessLoopAborting(file_paths, product_types, i, acc) ==
    IF i > Len(file_paths) THEN acc
    ELSE LET out == ProcessDocument(file_paths[i],
                                    ProductTypeFor(product_types, file_paths[i]))
             seen == [acc EXCEPT !.processed = @ \o <<file_paths[i]>>]
         IN  IF out.raised THEN seen
             ELSE ProcessLoopAborting(file_paths, product_types, i + 1,
                                      [seen EXCEPT !.ret = @ \o out.ret])

\* The loop of process_multiple_documents from the i-th path on: a document that
\* raises is skipped.  processed lists the paths process_document was called with.
RECURSIVE ProcessLoop(_, _, _, _)
ProcessLoop(file_paths, product_types, i, acc) ==
    IF i > Len(file_paths) THEN acc
    ELSE LET out == ProcessDocument(file_paths[i],
                                    ProductTypeFor(product_types, file_paths[i]))
             seen == [acc EXCEPT !.processed = @ \o <<file_paths[i]>>]
         IN  IF out.raised
             THEN ProcessLoop(file_paths, product_types, i + 1, seen)
             ELSE ProcessLoop(file_paths, product_types, i + 1,
                              [seen EXCEPT !.ret = @ \o out.ret])

\* process_multiple_documents.
ProcessMultipleDocuments(file_paths, product_types) ==
    ProcessLoop(file_paths, product_types, 1,
                [raised |-> FALSE, ret |-> <<>>, processed |-> <<>>])

(***************************************************************************)
(* Ingestion as steps.                                                     *)
(***************************************************************************)
\* The product_types arguments: None, an empty dict, a dict with one entry.
ProductTypeDicts ==
    { [none |-> TRUE, items |-> {}], [none |-> FALSE, items |-> {}],
      [none |-> FALSE, items |-> {<<PathAlerts, "inner_range">>}] }

\* The paths batches are made of: a file of two chunks, a file only the second
\* extractor reads, a missing file, a file that is not a PDF and a file no
\* extractor reads.
BatchPaths == {PathAlerts, PathCam, PathGone, PathNotes, PathBad}
PathLists == UNION { [1..n -> BatchPaths] : n \in 0..MaxFiles }

IngestInit ==
    /\ disk = <<>>
    /\ vectorstore = TRUE
    /\ mem = <<>>
    /\ llm = TRUE
    /\ tmpfiles = {}
    /\ last = [op |-> "init"]

Process ==
    \E file_path \in Paths, product_type \in {None, "general", "milestone"} :
        /\ last' = [op |-> "process_document", file_path |-> file_path,
                    product_type |-> product_type,
                    out |-> ProcessDocument(file_path, product_type)]
        /\ UNCHANGED <<vectorstore, mem, disk, llm, tmpfiles>>

ProcessMultiple ==
    \E file_paths \in PathLists, product_types \in ProductTypeDicts :
        /\ last' = [op |-> "process_multiple_documents", file_paths |-> file_paths,
                    product_types |-> product_types,
                    out |-> ProcessMultipleDocuments(file_paths, product_types)]
        /\ UNCHANGED <<vectorstore, mem, disk, llm, tmpfiles>>

\* Texts and filenames detect_product_type is called with: each keyword in the
\* text and in the filename, in either case, and two keywords at once.
ClassifyTexts ==
    { <<"E", "v", "e", "r", "b", "r", "i", "d", "g", "e">>,
      <<"i", "n", "n", "e", "r", " ", "r", "a", "n", "g", "e">>,
      <<"I", "N", "N", "E", "R", "_", "R", "A", "N", "G", "E">>,
      <<"m", "i", "l", "e", "s", "t", "o", "n", "e", " ", "i", "n", "n", "e", "r", " ", "r", "a", "n", "g", "e">>,
      <<"a", "b", "c">> }

ClassifyNames ==
    { <<"a", ".", "p", "d", "f">>,
      <<"I", "n", "n", "e", "r", " ", "R", "a", "n", "g", "e", ".", "p", "d", "f">>,
      <<"i", "n", "n", "e", "r", "r", "a", "n", "g", "e", ".", "p", "d", "f">>,
      <<"i", "n", "n", "e", "r", "_", "r", "a", "n", "g", "e", ".", "p", "d", "f">>,
      <<"E", "V", "E", "R", "B", "R", "I", "D", "G", "E", ".", "p", "d", "f">>,
      <<"M", "i", "l", "e", "s", "t", "o", "n", "e", ".", "P", "D", "F">> }

Classify ==
    \E text \in ClassifyTexts, filename \in ClassifyNames :
        /\ last' = [op |-> "detect_product_type", text |-> text,
                    filename |-> filename,
                    out |-> DetectProductType(text, filename)]
        /\ UNCHANGED <<vectorstore, mem, disk, llm, tmpfiles>>

IngestNext == Process \/ ProcessMultiple \/ Classify

SpecIngest == IngestInit /\ [][IngestNext]_vars

(***************************************************************************)
(* Properties of the ingestion pipeline.                                   *)
(***************************************************************************)
IsProcessMultiple == last.op = "process_multiple_documents"

\* What process_document gives for the i-th path of the latest batch.
OutcomeOf(i) ==
    ProcessDocument(last.file_paths[i],
                    ProductTypeFor(last.product_types, last.file_paths[i]))

\* The number of chunk records the i-th document of the latest batch contributes.
ChunksOf(i) == IF OutcomeOf(i).raised THEN 0 ELSE Len(OutcomeOf(i).ret)

\* The number of chunk records of the documents before the i-th.
RECURSIVE Offset(_)
Offset(i) == IF i <= 1 THEN 0 ELSE Offset(i - 1) + ChunksOf(i - 1)

\* C10: process_multiple_documents does not raise, calls process_document on
\* every path in order whatever failed before, and returns the chunk records of
\* the documents that succeeded, each document's in chunk_index order and
\* contiguous, in input order, and nothing else.
C10_FailureIsolation ==
    IsProcessMultiple =>
        LET n == Len(last.file_paths)
        IN  /\ ~last.out.raised
            /\ last.out.processed = last.file_paths
            /\ Len(last.out.ret) = Offset(n + 1)
            /\ \A i \in 1..n : \A c \in 1..ChunksOf(i) :
                 /\ last.out.ret[Offset(i) + c] = OutcomeOf(i).ret[c]
                 /\ last.out.ret[Offset(i) + c].metadata.chunk_index = c - 1

\* A batch whose first document fails and whose second gives two chunks.
C10_Witness ==
    /\ IsProcessMultiple
    /\ Len(last.file_paths) = 2
    /\ OutcomeOf(1).raised
    /\ ChunksOf(2) = 2
    /\ Len(last.out.ret) = 2

IsProcess == last.op = "process_document"

\* C11: the records of one successfully ingested document are numbered
\* 0, 1, ..., n - 1 in order, each carries total_chunks = n with n >= 1 (so
\* chunk_index < total_chunks), and all carry one source and one product_type.
C11_ChunkNumbering ==
    (IsProcess /\ ~last.out.raised) =>
        LET ret == last.out.ret
            n   == Len(ret)
        IN  /\ n >= 1
            /\ \A i \in 1..n :
                  /\ ret[i].metadata.chunk_index = i - 1
                  /\ ret[i].metadata.total_chunks = n
                  /\ ret[i].metadata.chunk_index < ret[i].metadata.total_chunks
                  /\ ret[i].metadata.source = ret[1].metadata.source
                  /\ ret[i].metadata.product_type = ret[1].metadata.product_type

\* A document of more than one chunk was ingested.
C11_Witness ==
    /\ IsProcess
    /\ ~last.out.raised
    /\ Len(last.out.ret) >= 2

\* The text PyMuPDF alone extracts from a file.
SecondaryText(file) == Strip(JoinLines(file.fitz.pages))

\* The text pdfplumber alone extracts from a file it reads to the end.
PrimaryText(file) == Strip(JoinLines(NonEmpty(file.plumber.pages)))

\* The page_content of the records of a result, in order.
Contents(ret) == [i \in 1..Len(ret) |-> ret[i].page_content]

\* C12: for an existing PDF, process_document fails with an extraction error
\* exactly when both extractors fail or the extracted text is empty after
\* trimming, and then yields no record; when pdfplumber fails and PyMuPDF is
\* used, the text that is chunked is PyMuPDF's text.
C12_SecondaryTextIsChunked ==
    (/\ IsProcess
     /\ FileAt(last.file_path).exists
     /\ EndsWith(Lower(last.file_path), <<".", "p", "d", "f">>)) =>
        LET file            == FileAt(last.file_path)
            primaryFailed   == file.plumber.failsAt # 0
            bothFailed      == primaryFailed /\ file.fitz.raises
            text            == IF primaryFailed THEN SecondaryText(file)
                               ELSE PrimaryText(file)
            extractionError == bothFailed \/ text = <<>>
        IN  /\ last.out.raised <=> extractionError
            /\ last.out.raised =>
                  /\ last.out.ret = <<>>
                  /\ last.out.error \in {"Exception: could not extract",
                                         "ValueError: no text"}
            /\ (~last.out.raised /\ primaryFailed) =>
                  Contents(last.out.ret) = SplitText(SecondaryText(file))

IsClassify == last.op = "detect_product_type"

\* A keyword occurs, whatever the case, in the text or in the filename.
Occurs(keyword, text, filename) ==
    Contains(Lower(text), keyword) \/ Contains(Lower(filename), keyword)

\* The closed set of categories.
SupportedProducts == {"everbridge", "inner_range", "milestone", "general"}

\* C13: detect_product_type returns one category of the closed set: the first
\* of everbridge, inner_range, milestone one of whose keywords occurs, whatever
\* the case, in the text or in the filename (each keyword is looked for in
\* both), and general when none does.
C13_FirstKeywordInTextOrName ==
    IsClassify =>
        LET text     == last.text
            filename == last.filename
        IN  /\ last.out \in SupportedProducts
            /\ last.out =
                 IF Occurs(KwEverbridge, text, filename) THEN "everbridge"
                 ELSE IF \E keyword \in {KwInnerRangeText, KwInnerRangeFile,
                                          KwInnerRangeFileJoined} :
                            Occurs(keyword, text, filename)
                 THEN "inner_range"
                 ELSE IF Occurs(KwMilestone, text, filename) THEN "milestone"
                 ELSE "general"

(***************************************************************************)
(* The upload form of the front-end: process_uploaded_files.               *)
(***************************************************************************)
\* Temporary files the model lets exist at once.
MaxTemp == 3

TmpTags == <<"1", "2", "3", "4", "5", "6", "7", "8", "9">>

\* The name tempfile.NamedTemporaryFile(suffix='.pdf') gives its i-th choice.
TmpPath(i) ==
    <<"/", "t", "m", "p", "/", "t", "m", "p", TmpTags[i], ".", "p", "d", "f">>

\* A temporary name no existing temporary file has.
FreshTmp(tmp) ==
    TmpPath(CHOOSE i \in 1..Len(TmpTags) :
                /\ TmpPath(i) \notin tmp
                /\ \A j \in 1..(i - 1) : TmpPath(j) \in tmp)

\* An uploaded file: the name the user's file has, and what the extractors
\* make of its bytes.
UploadedFile(file) ==
    [name |-> Basename(file.path), plumber |-> file.plumber, fitz |-> file.fitz]

\* The temporary file holding the bytes of an uploaded file.
TempFile(tmp_file_path, uploaded_file) ==
    [path |-> tmp_file_path, exists |-> TRUE,
     plumber |-> uploaded_file.plumber, fitz |-> uploaded_file.fitz]

\* The product_type argument the form passes for the selected product.
SelectedProductType(selected_product) ==
    IF selected_product = "auto-detect" THEN None ELSE selected_product

\* The loop of process_uploaded_files from the i-th file on.  tmp: the
\* temporary files that exist; created: those this call created; outcomes:
\* what process_document did for each file.
RECURSIVE UploadLoop(_, _, _, _)
UploadLoop(uploaded_files, selected_product, i, acc) ==
    IF i > Len(uploaded_files) THEN acc
    ELSE LET tmp_file_path == FreshTmp(acc.tmp)
             written == [acc EXCEPT !.tmp = @ \cup {tmp_file_path},
                                    !.created = @ \o <<tmp_file_path>>]
             out == ProcessFile(TempFile(tmp_file_path, uploaded_files[i]),
                                SelectedProductType(selected_product))
             seen == [written EXCEPT !.outcomes = @ \o <<out>>]
         IN  IF out.raised
             THEN UploadLoop(uploaded_files, selected_product, i + 1, seen)
             ELSE UploadLoop(uploaded_files, selected_product, i + 1,
                             [seen EXCEPT !.all_documents = @ \o out.ret,
                                          !.tmp = @ \ {tmp_file_path}])

\* process_uploaded_files.  adds lists the arguments of its add_documents calls.
ProcessUploadedFiles(vs, m, d, tmp, uploaded_files, selected_product, env) ==
    LET loop == UploadLoop(uploaded_files, selected_product, 1,
                           [tmp |-> tmp, created |-> <<>>, outcomes |-> <<>>,
                            all_documents |-> <<>>])
        add  == AddDocumentsCall(vs, m, d, loop.all_documents, env, 0)
    IN  IF loop.all_documents # <<>>
        THEN [tmp |-> loop.tmp, mem |-> add.mem, disk |-> add.disk,
              created |-> loop.created, outcomes |-> loop.outcomes,
              adds |-> <<loop.all_documents>>, success |-> add.ret]
        ELSE [tmp |-> loop.tmp, mem |-> m, disk |-> d,
              created |-> loop.created, outcomes |-> loop.outcomes,
              adds |-> <<>>, success |-> FALSE]

\* The files a user uploads, and the lists of them one submission holds.
UploadPool ==
    { UploadedFile(FileAt(PathAlerts)), UploadedFile(FileAt(PathMilestone)),
      UploadedFile(FileAt(PathBad)) }

UploadLists == UNION { [1..n -> UploadPool] : n \in 1..MaxFiles }

SelectedProducts == {"auto-detect", "everbridge"}

Upload ==
    /\ Len(mem) < MaxIndex
    /\ \E uploaded_files \in UploadLists, selected_product \in SelectedProducts :
       \E env \in {"ok", "persist_raises"} :
         /\ Cardinality(tmpfiles) + Len(uploaded_files) <= MaxTemp
         /\ LET out == ProcessUploadedFiles(vectorstore, mem, disk, tmpfiles,
                                            uploaded_files, selected_product, env)
            IN  /\ tmpfiles' = out.tmp
                /\ mem' = out.mem
                /\ disk' = out.disk
                /\ last' = [op |-> "process_uploaded_files",
                            uploaded_files |-> uploaded_files,
                            selected_product |-> selected_product, env |-> env,
                            out |-> [created |-> out.created,
                                     outcomes |-> out.outcomes,
                                     adds |-> out.adds, success |-> out.success]]
         /\ UNCHANGED <<vectorstore, llm>>

UploadNext == Upload \/ Clear

SpecUpload == Init /\ [][UploadNext]_vars

IsUpload == last.op = "process_uploaded_files"

\* The names of the files users upload.
UploadNames == { uploaded_file.name : uploaded_file \in UploadPool }

\* C14: every record an upload produces, and every record in the index,
\* carries as source the name of the uploaded document it came from, and with
\* auto-detect its product_type is what detect_product_type gives for the
\* document's text and that name.
C14_SourceIsOriginalName ==
    /\ \A k \in 1..Len(mem) : mem[k].doc.metadata.source \in UploadNames
    /\ IsUpload =>
         \A i \in 1..Len(last.uploaded_files) :
           LET uploaded_file == last.uploaded_files[i]
               ret  == last.out.outcomes[i].ret
               text == ExtractTextFromPdf(TempFile(last.out.created[i],
                                                   uploaded_file)).ret
           IN  \A j \in 1..Len(ret) :
                 /\ ret[j].metadata.source = uploaded_file.name
                 /\ last.selected_product = "auto-detect" =>
                      ret[j].metadata.product_type =
                          DetectProductType(text, uploaded_file.name)

RECURSIVE Flatten(_)
Flatten(outcomes) ==
    IF outcomes = <<>> THEN <<>>
    ELSE (IF outcomes[1].raised THEN <<>> ELSE outcomes[1].ret)
         \o Flatten(Tail(outcomes))

\* C15: when process_uploaded_files returns, every temporary file it created
\* is deleted, whichever files failed; every uploaded file was processed, and
\* the records of the files that succeeded went to the index in one
\* add_documents call.
C15_TempFilesDeleted ==
    IsUpload =>
        /\ \A i \in 1..Len(last.out.created) : last.out.created[i] \notin tmpfiles
        /\ Len(last.out.outcomes) = Len(last.uploaded_files)
        /\ Flatten(last.out.outcomes) # <<>> =>
              last.out.adds = <<Flatten(last.out.outcomes)>>
        /\ Flatten(last.out.outcomes) = <<>> => last.out.adds = <<>>
====
